---- MODULE Spec2Model ----
(***************************************************************************)
(* A model of QuEST_common.c, the hardware-agnostic layer of QuEST.        *)
(*                                                                         *)
(* Numbers.  A Complex is a pair <<real, imag>> of integers; where the     *)
(* code produces fractions the unit is stated beside the definition.  A    *)
(* probability is an integer on a grid whose value 1.0 is One and on       *)
(* which REAL_EPS is a small positive number of grid steps.                *)
(*                                                                         *)
(* State.  Every operation of the file is one action.  It records its      *)
(* name and arguments in op, the kernel calls it issued, in order, in      *)
(* calls, what it returned in ret, and leaves the registers it touched in  *)
(* qureg and workspace.  rng counts the samples taken from the             *)
(* process-wide random source.  A register holds numQubitsRepresented      *)
(* qubits; its amplitudes amps[0], amps[1], ... are Complex numbers over   *)
(* the common denominator den.                                             *)
(***************************************************************************)
EXTENDS Integers, Sequences, FiniteSets, TLC

VARIABLES op, ret, calls, qureg, workspace, rng

vars == <<op, ret, calls, qureg, workspace, rng>>

\* ------------------------------------------------------------------ bounds

\* the probability grid: 1.0 is One grid steps
One == 12

\* the random source hands out at most MaxDraws samples in a run
MaxDraws == 2

\* ------------------------------------------------------- numeric primitives

Range(s) == {s[i] : i \in DOMAIN s}

RECURSIVE Pow2(_)
Pow2(n) == IF n = 0 THEN 1 ELSE 2 * Pow2(n - 1)

\* bit q of the non-negative integer m
Bit(m, q) == (m \div Pow2(q)) % 2

CZero == <<0, 0>>

CAdd(a, b) == <<a[1] + b[1], a[2] + b[2]>>

CMul(a, b) == <<a[1] * b[1] - a[2] * b[2], a[1] * b[2] + a[2] * b[1]>>

CScale(k, a) == <<k * a[1], k * a[2]>>

getConjugateScalar(scalar) == <<scalar[1], 0 - scalar[2]>>

\* the empty register, for the operations that touch none
NoQureg == [isDensityMatrix |-> 0, numQubitsRepresented |-> 0, amps |-> <<>>, den |-> 1]

NoOp == [name |-> "none"]

\* ------------------------------------------------------------ outcome sampler

\* REAL_EPS in grid steps: positive and far below One
REAL_EPS == 2

generateMeasurementOutcome_NoClamp(zeroProb, sample) ==
    LET outcome == IF sample > zeroProb THEN 1 ELSE 0
    IN  [outcome |-> outcome,
         outcomeProb |-> IF outcome = 0 THEN zeroProb ELSE One - zeroProb,
         draws |-> 1]

generateMeasurementOutcome_SwappedProb(zeroProb, sample) ==
    LET clamp1  == zeroProb < REAL_EPS
        clamp0  == ~clamp1 /\ One - zeroProb < REAL_EPS
        outcome == IF clamp1 THEN 1
                   ELSE IF clamp0 THEN 0
                   ELSE IF sample > zeroProb THEN 1 ELSE 0
    IN  [outcome |-> outcome,
         outcomeProb |-> IF outcome = 1 THEN zeroProb ELSE One - zeroProb,
         draws |-> IF clamp1 \/ clamp0 THEN 0 ELSE 1]

\* sample is what genrand_real1() returns if it is called; draws says whether
\* it was
generateMeasurementOutcome(zeroProb, sample) ==
    LET clamp1  == zeroProb < REAL_EPS
        clamp0  == ~clamp1 /\ One - zeroProb < REAL_EPS
        outcome == IF clamp1 THEN 1
                   ELSE IF clamp0 THEN 0
                   ELSE IF sample > zeroProb THEN 1 ELSE 0
    IN  [outcome |-> outcome,
         outcomeProb |-> IF outcome = 0 THEN zeroProb ELSE One - zeroProb,
         draws |-> IF clamp1 \/ clamp0 THEN 0 ELSE 1]

\* the kernel calls of statevec_measureWithStats / densmatr_measureWithStats
MeasureCalls(prefix, measureQubit, zeroProb, r) ==
    <<[fn |-> prefix \o "_calcProbOfOutcome", qubit |-> measureQubit, outcome |-> 0]>>
    \o (IF r.draws = 1 THEN <<[fn |-> "genrand_real1"]>> ELSE <<>>)
    \o <<[fn |-> prefix \o "_collapseToKnownProbOutcome", qubit |-> measureQubit,
          outcome |-> r.outcome, outcomeProb |-> r.outcomeProb]>>

GenerateMeasurementOutcome ==
    \E zeroProb \in 0..One, sample \in 0..One :
        LET r == generateMeasurementOutcome(zeroProb, sample)
        IN  /\ rng + r.draws <= MaxDraws
            /\ op' = [name |-> "generateMeasurementOutcome", zeroProb |-> zeroProb,
                      sample |-> IF r.draws = 1 THEN sample ELSE -1]
            /\ ret' = [outcome |-> r.outcome, outcomeProb |-> r.outcomeProb]
            /\ calls' = IF r.draws = 1 THEN <<[fn |-> "genrand_real1"]>> ELSE <<>>
            /\ rng' = rng + r.draws
            /\ UNCHANGED <<qureg, workspace>>

\* zeroProb is what the probability kernel returns for the register
statevec_measureWithStats ==
    \E measureQubit \in 0..1, zeroProb \in 0..One, sample \in 0..One :
        LET r == generateMeasurementOutcome(zeroProb, sample)
        IN  /\ rng + r.draws <= MaxDraws
            /\ op' = [name |-> "statevec_measureWithStats", zeroProb |-> zeroProb,
                      sample |-> IF r.draws = 1 THEN sample ELSE -1]
            /\ ret' = [outcome |-> r.outcome, outcomeProb |-> r.outcomeProb]
            /\ calls' = MeasureCalls("statevec", measureQubit, zeroProb, r)
            /\ rng' = rng + r.draws
            /\ UNCHANGED <<qureg, workspace>>

densmatr_measureWithStats ==
    \E measureQubit \in 0..1, zeroProb \in 0..One, sample \in 0..One :
        LET r == generateMeasurementOutcome(zeroProb, sample)
        IN  /\ rng + r.draws <= MaxDraws
            /\ op' = [name |-> "densmatr_measureWithStats", zeroProb |-> zeroProb,
                      sample |-> IF r.draws = 1 THEN sample ELSE -1]
            /\ ret' = [outcome |-> r.outcome, outcomeProb |-> r.outcomeProb]
            /\ calls' = MeasureCalls("densmatr", measureQubit, zeroProb, r)
            /\ rng' = rng + r.draws
            /\ UNCHANGED <<qureg, workspace>>

InitMeasure ==
    /\ op = NoOp
    /\ ret = [outcome |-> 0, outcomeProb |-> 0]
    /\ calls = <<>>
    /\ qureg = NoQureg
    /\ workspace = NoQureg
    /\ rng = 0

NextMeasure ==
    \/ GenerateMeasurementOutcome
    \/ statevec_measureWithStats
    \/ densmatr_measureWithStats

SpecMeasure == InitMeasure /\ [][NextMeasure]_vars

IsSampling == op.name \in {"generateMeasurementOutcome", "statevec_measureWithStats",
                           "densmatr_measureWithStats"}

IsMeasure == op.name \in {"statevec_measureWithStats", "densmatr_measureWithStats"}

Draws == Len(SelectSeq(calls, LAMBDA c : c.fn = "genrand_real1"))

\* C1: generateMeasurementOutcome with zeroProb = 1 returns outcome 0 with
\* realized probability 1, with zeroProb = 0 returns outcome 1 with realized
\* probability 1, and in neither case takes a sample from the random source.
C1_CertainOutcomes ==
    (op.name = "generateMeasurementOutcome" /\ op.zeroProb \in {0, One}) =>
        /\ ret.outcome = (IF op.zeroProb = One THEN 0 ELSE 1)
        /\ ret.outcomeProb = One
        /\ calls = <<>>

C1_Witness ==
    /\ op.name = "generateMeasurementOutcome"
    /\ op.zeroProb = One
    /\ ret.outcome = 0
    /\ rng = 1

\* C10: for every zeroProb in [0, 1] the realized probability is zeroProb for
\* outcome 0 and 1 - zeroProb for outcome 1 and is never below REAL_EPS; the
\* measure operations call the collapse kernel exactly once, last, with the
\* sampled outcome and that probability; when neither clamp applies exactly
\* one sample is drawn and the outcome is 1 exactly when it exceeds zeroProb.
C10_RealizedProbability ==
    IsSampling =>
        /\ ret.outcomeProb = (IF ret.outcome = 0 THEN op.zeroProb ELSE One - op.zeroProb)
        /\ ret.outcomeProb >= REAL_EPS
        /\ (op.zeroProb >= REAL_EPS /\ One - op.zeroProb >= REAL_EPS) =>
              /\ Draws = 1
              /\ (ret.outcome = 1) <=> (op.sample > op.zeroProb)
        /\ IsMeasure =>
              LET collapses == SelectSeq(calls, LAMBDA c :
                                  c.fn \notin {"genrand_real1", "statevec_calcProbOfOutcome",
                                               "densmatr_calcProbOfOutcome"})
                  last == calls[Len(calls)]
              IN  /\ Len(collapses) = 1
                  /\ last = collapses[1]
                  /\ last.outcome = ret.outcome
                  /\ last.outcomeProb = ret.outcomeProb
                  /\ last.outcomeProb >= REAL_EPS

C10_Witness ==
    /\ op.name = "densmatr_measureWithStats"
    /\ op.zeroProb >= REAL_EPS
    /\ One - op.zeroProb >= REAL_EPS
    /\ ret.outcome = 1
    /\ Draws = 1
    /\ Len(calls) = 3

\* ------------------------------------------------ multi-qubit Pauli rotation

\* the qubits of the register the Pauli-string rotation acts on are
\* 0..NumPauliQubits-1
NumPauliQubits == 3

\* the rotation angle is one of 1..MaxAngle (in arbitrary units; the code
\* only passes it on or negates it)
MaxAngle == 2

\* enum pauliOpType
PAULI_I == 0

PAULI_X == 1

PAULI_Y == 2

PAULI_Z == 3

PauliCodes == {PAULI_I, PAULI_X, PAULI_Y, PAULI_Z}

\* mask | (1LL << q)
OrBit(mask, q) == IF Bit(mask, q) = 1 THEN mask ELSE mask + Pow2(q)

RECURSIVE getQubitBitMaskFrom(_, _, _)
getQubitBitMaskFrom(qubits, i, mask) ==
    IF i > Len(qubits) THEN mask
    ELSE getQubitBitMaskFrom(qubits, i + 1, OrBit(mask, qubits[i]))

getQubitBitMask(qubits) == getQubitBitMaskFrom(qubits, 1, 0)

\* the first loop's effect on mask, from target t on: an Identity-tagged
\* target subtracts 1LL << targetPaulis[t]
RECURSIVE MaskAfterLoop(_, _, _)
MaskAfterLoop(targetPaulis, t, mask) ==
    IF t > Len(targetPaulis) THEN mask
    ELSE MaskAfterLoop(targetPaulis, t + 1,
            IF targetPaulis[t] = PAULI_I THEN mask - Pow2(targetPaulis[t]) ELSE mask)

\* the compact-unitary calls of one of the two loops, from target t on;
\* alpha and beta are in units of fac = 1/sqrt(2)
RECURSIVE BasisCalls(_, _, _, _, _)
BasisCalls(targetQubits, targetPaulis, t, uRx, uRy) ==
    IF t > Len(targetQubits) THEN <<>>
    ELSE (IF targetPaulis[t] = PAULI_X
            THEN <<[fn |-> "statevec_compactUnitary", target |-> targetQubits[t],
                    alpha |-> uRy.alpha, beta |-> uRy.beta]>>
          ELSE IF targetPaulis[t] = PAULI_Y
            THEN <<[fn |-> "statevec_compactUnitary", target |-> targetQubits[t],
                    alpha |-> uRx.alpha, beta |-> uRx.beta]>>
          ELSE <<>>)
         \o BasisCalls(targetQubits, targetPaulis, t + 1, uRx, uRy)

\* the operation with its second loop repeating the first loop's rotations
\* instead of undoing them
multiRotatePauliCalls_UndoNotNegated(targetQubits, targetPaulis, angle, applyConj) ==
    LET uRx  == [alpha |-> <<1, 0>>, beta |-> <<0, IF applyConj = 1 THEN 1 ELSE -1>>]
        uRy  == [alpha |-> <<1, 0>>, beta |-> <<1, 0>>]
        mask == MaskAfterLoop(targetPaulis, 1, getQubitBitMask(targetQubits))
    IN  BasisCalls(targetQubits, targetPaulis, 1, uRx, uRy)
        \o <<[fn |-> "statevec_multiRotateZ", mask |-> mask,
              angle |-> IF applyConj = 1 THEN 0 - angle ELSE angle]>>
        \o BasisCalls(targetQubits, targetPaulis, 1, uRx, uRy)

multiRotatePauliCalls(targetQubits, targetPaulis, angle, applyConj) ==
    LET uRx  == [alpha |-> <<1, 0>>, beta |-> <<0, IF applyConj = 1 THEN 1 ELSE -1>>]
        uRy  == [alpha |-> <<1, 0>>, beta |-> <<1, 0>>]
        mask == MaskAfterLoop(targetPaulis, 1, getQubitBitMask(targetQubits))
        uRxU == [uRx EXCEPT !.beta = <<uRx.beta[1], 0 - uRx.beta[2]>>]
        uRyU == [uRy EXCEPT !.beta = <<0 - uRy.beta[1], uRy.beta[2]>>]
    IN  BasisCalls(targetQubits, targetPaulis, 1, uRx, uRy)
        \o <<[fn |-> "statevec_multiRotateZ", mask |-> mask,
              angle |-> IF applyConj = 1 THEN 0 - angle ELSE angle]>>
        \o BasisCalls(targetQubits, targetPaulis, 1, uRxU, uRyU)

\* the lists of pairwise distinct qubits below n
DistinctLists(n) ==
    UNION {{s \in [1..k -> 0..(n - 1)] : \A i, j \in 1..k : i # j => s[i] # s[j]} : k \in 0..n}

\* a call that has been set up and not yet made
Pending(fn) == op.name = "pending" /\ op.fn = fn

\* the amplitudes are changed by the kernels alone, which this file does not
\* hold: the operation is its sequence of kernel calls
statevec_multiRotatePauli ==
    /\ Pending("statevec_multiRotatePauli")
    /\ op' = [op EXCEPT !.name = op.fn]
    /\ calls' = multiRotatePauliCalls(op.targetQubits, op.targetPaulis, op.angle,
                                      op.applyConj)
    /\ UNCHANGED <<ret, qureg, workspace, rng>>

\* every call with pairwise distinct targets, any Pauli tags, an angle and
\* either value of applyConj
InitPauliRot ==
    /\ \E targetQubits \in DistinctLists(NumPauliQubits), angle \in 1..MaxAngle,
          applyConj \in 0..1 :
         \E targetPaulis \in [1..Len(targetQubits) -> PauliCodes] :
            op = [name |-> "pending", fn |-> "statevec_multiRotatePauli",
                  targetQubits |-> targetQubits, targetPaulis |-> targetPaulis,
                  angle |-> angle, applyConj |-> applyConj]
    /\ ret = [outcome |-> 0, outcomeProb |-> 0]
    /\ calls = <<>>
    /\ qureg = NoQureg
    /\ workspace = NoQureg
    /\ rng = 0

NextPauliRot == statevec_multiRotatePauli

SpecPauliRot == InitPauliRot /\ [][NextPauliRot]_vars

RotateZCalls == SelectSeq(calls, LAMBDA c : c.fn = "statevec_multiRotateZ")

\* C2: the mask passed to statevec_multiRotateZ has bit q set exactly when q
\* is a target whose Pauli tag is not Identity.
C2_MaskIsNonIdentityTargets ==
    op.name = "statevec_multiRotatePauli" =>
        \A c \in Range(RotateZCalls) :
            /\ c.mask >= 0
            /\ c.mask < Pow2(NumPauliQubits)
            /\ \A q \in 0..(NumPauliQubits - 1) :
                  (Bit(c.mask, q) = 1) <=>
                     (\E t \in DOMAIN op.targetQubits :
                          op.targetQubits[t] = q /\ op.targetPaulis[t] # PAULI_I)

\* the positions of the X- and Y-tagged targets, in the order of the target list
RotatedTargets(targetPaulis) ==
    SelectSeq([t \in DOMAIN targetPaulis |-> t],
              LAMBDA t : targetPaulis[t] \in {PAULI_X, PAULI_Y})

CNeg(a) == <<0 - a[1], 0 - a[2]>>

\* what applyConj = 1 may change in a call: the Z-rotation's angle is negated,
\* and the imaginary part of beta changes sign in the rotations of the
\* Y-tagged targets
ConjOfCall(c, yTargets) ==
    IF c.fn = "statevec_multiRotateZ" THEN [c EXCEPT !.angle = 0 - c.angle]
    ELSE IF c.target \in yTargets THEN [c EXCEPT !.beta = <<c.beta[1], 0 - c.beta[2]>>]
    ELSE c

\* C11: every run issues exactly one statevec_multiRotateZ call; before it
\* there is one compact-unitary rotation on each X- or Y-tagged target, in the
\* order of the target list, and none on a Z- or Identity-tagged target; after
\* it come, on the same targets in the same order, the compact unitaries with
\* the same alpha and the negated beta.  With applyConj = 1 the calls are those
\* of applyConj = 0 with the Z-rotation's angle negated and the sign of the
\* imaginary part of beta flipped in the Y-tagged targets' rotations, and
\* nothing else differs.
C11_CallSequence ==
    op.name = "statevec_multiRotatePauli" =>
        LET xy == RotatedTargets(op.targetPaulis)
            n  == Len(xy)
            yTargets == {op.targetQubits[t] : t \in {u \in DOMAIN op.targetPaulis :
                                                        op.targetPaulis[u] = PAULI_Y}}
            plain == multiRotatePauliCalls(op.targetQubits, op.targetPaulis, op.angle, 0)
        IN  /\ Len(calls) = 2 * n + 1
            /\ Len(RotateZCalls) = 1
            /\ calls[n + 1].fn = "statevec_multiRotateZ"
            /\ calls[n + 1].angle = IF op.applyConj = 1 THEN 0 - op.angle ELSE op.angle
            /\ \A i \in 1..n :
                  /\ calls[i].fn = "statevec_compactUnitary"
                  /\ calls[i].target = op.targetQubits[xy[i]]
                  /\ calls[n + 1 + i].fn = "statevec_compactUnitary"
                  /\ calls[n + 1 + i].target = calls[i].target
                  /\ calls[n + 1 + i].alpha = calls[i].alpha
                  /\ calls[n + 1 + i].beta = CNeg(calls[i].beta)
                  /\ calls[i].beta # CZero
            /\ op.applyConj = 0 => calls = plain
            /\ op.applyConj = 1 =>
                  calls = [i \in DOMAIN plain |-> ConjOfCall(plain[i], yTargets)]

\* a conjugate run over a Y-, an X- and a Z-tagged target has been made: two
\* rotations, the Z-rotation with the negated angle, two inverse rotations
C11_Witness ==
    /\ op.name = "statevec_multiRotatePauli"
    /\ op.applyConj = 1
    /\ op.targetQubits = <<2, 0, 1>>
    /\ op.targetPaulis = <<PAULI_Y, PAULI_X, PAULI_Z>>
    /\ Len(calls) = 5
    /\ calls[1].target = 2 /\ calls[1].beta = <<0, 1>>
    /\ calls[2].target = 0 /\ calls[2].beta = <<1, 0>>
    /\ calls[3].angle = 0 - op.angle
    /\ calls[4].target = 2 /\ calls[4].beta = <<0, -1>>
    /\ calls[5].target = 0 /\ calls[5].beta = <<-1, 0>>

\* ------------------------------------------------------ superoperator builder

\* the entries of the 2x2 Kraus operators handed to the builder have
\* non-negative integer components that sum, over a whole operator list, to at
\* most MaxKrausWeight
MaxKrausWeight == 2

\* the same for the sparse 4x4 Kraus operators
MaxKraus4Weight == 2

\* a list of Kraus operators holds at most MaxOps operators
MaxOps == 2

\* the complex numbers a + bi with a, b >= 0 and a + b <= w
WeightScalars(w) == {<<a, b>> : a \in 0..w, b \in 0..w} \ {<<a, b>> \in (0..w) \X (0..w) : a + b > w}

CWeight(z) == z[1] + z[2]

\* the vectors of len such numbers whose components sum to at most w
RECURSIVE WeightVectors(_, _)
WeightVectors(len, w) ==
    IF len = 0 THEN {<<>>}
    ELSE UNION {{Append(v, z) : v \in WeightVectors(len - 1, w - CWeight(z))} :
                    z \in WeightScalars(w)}

RECURSIVE VecWeight(_)
VecWeight(v) == IF v = <<>> THEN 0 ELSE CWeight(Head(v)) + VecWeight(Tail(v))

\* the d x d matrix, rows and columns from 0, whose rows are laid out in v
MatOf(v, d) == [r \in 0..(d - 1) |-> [c \in 0..(d - 1) |-> v[r * d + c + 1]]]

ZeroMatrix(d) == [r \in 0..(d - 1) |-> [c \in 0..(d - 1) |-> CZero]]

\* the lists of at most MaxOps 2x2 operators of total weight at most w
RECURSIVE Kraus2ListsOf(_, _)
Kraus2ListsOf(n, w) ==
    IF n = 0 THEN {<<>>}
    ELSE {<<>>} \cup
         UNION {{<<MatOf(v, 2)>> \o rest : rest \in Kraus2ListsOf(n - 1, w - VecWeight(v))} :
                    v \in WeightVectors(4, w)}

Kraus2Lists == Kraus2ListsOf(MaxOps, MaxKrausWeight)

\* dense two-qubit operators: a controlled-phase-like operator with an
\* off-diagonal block, and a full matrix of distinct entries
DenseKraus4 ==
    { MatOf(<< <<1, 0>>, <<0, 1>>, <<0, 0>>, <<2, 0>>,
               <<0, 0>>, <<1, 1>>, <<0, -1>>, <<0, 0>>,
               <<3, 0>>, <<0, 0>>, <<-1, 0>>, <<0, 2>>,
               <<0, 0>>, <<1, -2>>, <<0, 0>>, <<0, 1>> >>, 4),
      MatOf([x \in 1..16 |-> <<x, 17 - 2 * x>>], 4) }

SparseKraus4 == {MatOf(v, 4) : v \in WeightVectors(16, MaxKraus4Weight)}

\* the lists of 4x4 operators: one sparse or dense operator, or a dense one
\* followed by a sparse one
Kraus4Lists ==
    {<<>>} \cup {<<k>> : k \in SparseKraus4 \cup DenseKraus4}
    \cup (IF MaxOps >= 2 THEN {<<k1, k2>> : k1 \in DenseKraus4, k2 \in SparseKraus4} ELSE {})

getConjComplexProd_NoConj(a, b) ==
    <<a[1] * b[1] - a[2] * b[2], a[1] * b[2] + a[2] * b[1]>>

\* conj(a) * b
getConjComplexProd(a, b) ==
    <<a[1] * b[1] + a[2] * b[2], a[1] * b[2] - a[2] * b[1]>>

\* dest + conj(a) * b
addConjComplexProd(dest, a, b) ==
    LET prod == getConjComplexProd(a, b)
    IN  <<dest[1] + prod[1], dest[2] + prod[2]>>

\* for each entry rRcC of the 4x4 superoperator, the entries <<r, c>> of the
\* Kraus operator that the builder passes as a and as b, as the source lists
\* them
OneQubitEntryTable ==
    [r \in 0..3 |-> [c \in 0..3 |->
        CASE <<r, c>> = <<0, 0>> -> [a |-> <<0, 0>>, b |-> <<0, 0>>]
          [] <<r, c>> = <<0, 1>> -> [a |-> <<0, 0>>, b |-> <<0, 1>>]
          [] <<r, c>> = <<1, 0>> -> [a |-> <<0, 0>>, b |-> <<1, 0>>]
          [] <<r, c>> = <<1, 1>> -> [a |-> <<0, 0>>, b |-> <<1, 1>>]
          [] <<r, c>> = <<0, 2>> -> [a |-> <<0, 1>>, b |-> <<0, 0>>]
          [] <<r, c>> = <<0, 3>> -> [a |-> <<0, 1>>, b |-> <<0, 1>>]
          [] <<r, c>> = <<1, 2>> -> [a |-> <<0, 1>>, b |-> <<1, 0>>]
          [] <<r, c>> = <<1, 3>> -> [a |-> <<0, 1>>, b |-> <<1, 1>>]
          [] <<r, c>> = <<2, 0>> -> [a |-> <<1, 0>>, b |-> <<0, 0>>]
          [] <<r, c>> = <<2, 1>> -> [a |-> <<1, 0>>, b |-> <<0, 1>>]
          [] <<r, c>> = <<3, 0>> -> [a |-> <<1, 0>>, b |-> <<1, 0>>]
          [] <<r, c>> = <<3, 1>> -> [a |-> <<1, 0>>, b |-> <<1, 1>>]
          [] <<r, c>> = <<2, 2>> -> [a |-> <<1, 1>>, b |-> <<0, 0>>]
          [] <<r, c>> = <<2, 3>> -> [a |-> <<1, 1>>, b |-> <<0, 1>>]
          [] <<r, c>> = <<3, 2>> -> [a |-> <<1, 1>>, b |-> <<1, 0>>]
          [] <<r, c>> = <<3, 3>> -> [a |-> <<1, 1>>, b |-> <<1, 1>>]]]

\* one pass of the builder's loop body over operator ops[n], n from 1
RECURSIVE OneQubitSuperopFrom(_, _, _)
OneQubitSuperopFrom(ops, n, superOp) ==
    IF n > Len(ops) THEN superOp
    ELSE LET opn == ops[n]
         IN  OneQubitSuperopFrom(ops, n + 1,
                [r \in 0..3 |-> [c \in 0..3 |->
                    LET e == OneQubitEntryTable[r][c]
                    IN  addConjComplexProd(superOp[r][c], opn[e.a[1]][e.a[2]],
                                           opn[e.b[1]][e.b[2]])]])

getOneQubitKrausSuperoperator(ops) == OneQubitSuperopFrom(ops, 1, ZeroMatrix(4))

\* the sum of f over the finite set dom
RECURSIVE CSumSet(_, _)
CSumSet(f, dom) ==
    IF dom = {} THEN CZero
    ELSE LET x == CHOOSE y \in dom : TRUE
         IN  CAdd(f[x], CSumSet(f, dom \ {x}))

\* the iterations <<i, j, k, l>> of the four nested loops that write element
\* [row][col] of the superoperator
LoopWriters(row, col) ==
    LET opDim == 4
    IN  {w \in (0..3) \X (0..3) \X (0..3) \X (0..3) :
            w[1] * opDim + w[3] = row /\ w[2] * opDim + w[4] = col}

LoopWritersTable == [row \in 0..15 |-> [col \in 0..15 |-> LoopWriters(row, col)]]

\* the four nested loops over one operator: every iteration adds
\* conj(opArr[i][j]) * opArr[k][l] to the element it indexes
TwoQubitLoops(opArr, superOp) ==
    [row \in 0..15 |-> [col \in 0..15 |->
        CAdd(superOp[row][col],
             CSumSet([w \in LoopWritersTable[row][col] |->
                         getConjComplexProd(opArr[w[1]][w[2]], opArr[w[3]][w[4]])],
                     LoopWritersTable[row][col]))]]

RECURSIVE populateFrom(_, _, _)
populateFrom(superOp, ops, n) ==
    IF n > Len(ops) THEN superOp
    ELSE populateFrom(TwoQubitLoops(ops[n], superOp), ops, n + 1)

populateTwoQubitKrausSuperoperator(superOp, ops) == populateFrom(superOp, ops, 1)

GetOneQubitKrausSuperoperator ==
    /\ Pending("getOneQubitKrausSuperoperator")
    /\ op' = [op EXCEPT !.name = op.fn]
    /\ ret' = getOneQubitKrausSuperoperator(op.ops)
    /\ UNCHANGED <<calls, qureg, workspace, rng>>

\* the matrix handed in is zero, as densmatr_applyTwoQubitKrausMap means it
\* to be
PopulateTwoQubitKrausSuperoperator ==
    /\ Pending("populateTwoQubitKrausSuperoperator")
    /\ op' = [op EXCEPT !.name = op.fn]
    /\ ret' = populateTwoQubitKrausSuperoperator(ZeroMatrix(16), op.ops)
    /\ UNCHANGED <<calls, qureg, workspace, rng>>

InitSuperOp ==
    /\ \/ \E ops \in Kraus2Lists :
            op = [name |-> "pending", fn |-> "getOneQubitKrausSuperoperator",
                  ops |-> ops, opDim |-> 2]
       \/ \E ops \in Kraus4Lists :
            op = [name |-> "pending", fn |-> "populateTwoQubitKrausSuperoperator",
                  ops |-> ops, opDim |-> 4]
    /\ ret = <<>>
    /\ calls = <<>>
    /\ qureg = NoQureg
    /\ workspace = NoQureg
    /\ rng = 0

NextSuperOp ==
    \/ GetOneQubitKrausSuperoperator
    \/ PopulateTwoQubitKrausSuperoperator

SpecSuperOp == InitSuperOp /\ [][NextSuperOp]_vars

RECURSIVE CSumUpTo(_, _)
CSumUpTo(f, n) == IF n < 0 THEN CZero ELSE CAdd(f[n], CSumUpTo(f, n - 1))

\* the sum of f over its domain 0..n-1 or 1..n
CSum(f) == IF DOMAIN f = {} THEN CZero
           ELSE LET lo == CHOOSE x \in DOMAIN f : \A y \in DOMAIN f : x <= y
                    n  == Cardinality(DOMAIN f)
                IN  CSumUpTo([x \in 0..(n - 1) |-> f[x + lo]], n - 1)

IsBuilder == op.name \in {"getOneQubitKrausSuperoperator", "populateTwoQubitKrausSuperoperator"}

\* C3: for d = 2 and for d = 4 on a zero-initialised matrix the built
\* superoperator S has S[i*d + k][j*d + l] = sum over n of
\* conj(K_n[i][j]) * K_n[k][l] for all i, j, k, l below d, so an empty list
\* gives the zero matrix.
C3_SuperoperatorFormula ==
    IsBuilder =>
        LET d == op.opDim
        IN  /\ DOMAIN ret = 0..(d * d - 1)
            /\ \A i, j, k, l \in 0..(d - 1) :
                  ret[i * d + k][j * d + l] =
                     CSum([n \in 1..Len(op.ops) |->
                             CMul(getConjugateScalar(op.ops[n][i][j]), op.ops[n][k][l])])
            /\ op.ops = <<>> => ret = ZeroMatrix(d * d)

C3_Witness ==
    /\ op.name = "populateTwoQubitKrausSuperoperator"
    /\ Len(op.ops) = 2
    /\ ret[1 * 4 + 2][3 * 4 + 0] # CZero
    /\ ret[1 * 4 + 2][3 * 4 + 0][2] # 0

\* -------------------------------------------------- dimension-doubling bridge

\* a density matrix holds 1..NumDensQubits qubits
NumDensQubits == 2

\* the amplitudes of a register drawn by weight have non-negative integer
\* components that sum to at most MaxAmpWeight
MaxAmpWeight == 1

\* the Pauli-error probabilities are multiples of 1/d^2 for a d in 1..ProbDen
ProbDen == 3

\* the row of the matrix that amplitude index idx meets: bit j of the row is
\* the bit of idx at targs[j + 1]
RECURSIVE RowOf(_, _, _)
RowOf(idx, targs, j) ==
    IF j > Len(targs) THEN 0
    ELSE Bit(idx, targs[j]) * Pow2(j - 1) + RowOf(idx, targs, j + 1)

\* idx with the bits at targs replaced by the bits of col
RECURSIVE WithTargetBits(_, _, _, _)
WithTargetBits(idx, targs, col, j) ==
    IF j > Len(targs) THEN idx
    ELSE WithTargetBits(idx + (Bit(col, j - 1) - Bit(idx, targs[j])) * Pow2(targs[j]),
                        targs, col, j + 1)

ControlsSet(idx, ctrlMask, numBits) ==
    \A q \in 0..(numBits - 1) : Bit(ctrlMask, q) = 1 => Bit(idx, q) = 1

\* the kernel: the amplitudes whose control bits are all 1 are multiplied, in
\* groups that differ in the target bits only, by the matrix u, whose index
\* has targs[1] as its lowest bit.  u holds its entries over the denominator
\* uDen, which the register's denominator takes up: the amplitudes that are
\* left alone are scaled by it
statevec_multiControlledMultiQubitUnitary(amps, numBits, ctrlMask, targs, u, uDen) ==
    LET dim == Pow2(Len(targs))
    IN  [idx \in DOMAIN amps |->
            IF ControlsSet(idx, ctrlMask, numBits)
            THEN CSum([col \in 0..(dim - 1) |->
                         CMul(u[RowOf(idx, targs, 1)][col],
                              amps[WithTargetBits(idx, targs, col, 1)])])
            ELSE CScale(uDen, amps[idx])]

statevec_multiControlledTwoQubitUnitary(amps, numBits, ctrlMask, q1, q2, u, uDen) ==
    statevec_multiControlledMultiQubitUnitary(amps, numBits, ctrlMask, <<q1, q2>>, u, uDen)

densmatr_applyKrausSuperoperator_SwappedTargets(q, target, s, sDen) ==
    [calls |-> <<[fn |-> "statevec_multiControlledTwoQubitUnitary", ctrlMask |-> 0,
                  targets |-> <<target + q.numQubitsRepresented, target>>,
                  u |-> s, uDen |-> sDen]>>,
     qureg |-> [q EXCEPT
                  !.amps = statevec_multiControlledTwoQubitUnitary(q.amps,
                              2 * q.numQubitsRepresented, 0,
                              target + q.numQubitsRepresented, target, s, sDen),
                  !.den = q.den * sDen]]

\* s holds the superoperator's entries over the denominator sDen
densmatr_applyKrausSuperoperator(q, target, s, sDen) ==
    LET ctrlMask == 0
    IN  [calls |-> <<[fn |-> "statevec_multiControlledTwoQubitUnitary",
                      ctrlMask |-> ctrlMask,
                      targets |-> <<target, target + q.numQubitsRepresented>>,
                      u |-> s, uDen |-> sDen]>>,
         qureg |-> [q EXCEPT
                      !.amps = statevec_multiControlledTwoQubitUnitary(q.amps,
                                  2 * q.numQubitsRepresented, ctrlMask, target,
                                  target + q.numQubitsRepresented, s, sDen),
                      !.den = q.den * sDen]]

densmatr_applyTwoQubitKrausSuperoperator_UnshiftedBra(q, target1, target2, s) ==
    LET targets == <<target1, target2, target1 + q.numQubitsRepresented, target2>>
    IN  [calls |-> <<[fn |-> "statevec_multiControlledMultiQubitUnitary", ctrlMask |-> 0,
                      targets |-> targets, u |-> s, uDen |-> 1]>>,
         qureg |-> [q EXCEPT
                      !.amps = statevec_multiControlledMultiQubitUnitary(q.amps,
                                  2 * q.numQubitsRepresented, 0, targets, s, 1)]]

densmatr_applyTwoQubitKrausSuperoperator(q, target1, target2, s) ==
    LET ctrlMask == 0
        numQb    == q.numQubitsRepresented
        targets  == <<target1, target2, target1 + numQb, target2 + numQb>>
    IN  [calls |-> <<[fn |-> "statevec_multiControlledMultiQubitUnitary",
                      ctrlMask |-> ctrlMask, targets |-> targets, u |-> s, uDen |-> 1]>>,
         qureg |-> [q EXCEPT
                      !.amps = statevec_multiControlledMultiQubitUnitary(q.amps,
                                  2 * numQb, ctrlMask, targets, s, 1)]]

densmatr_applyKrausMap(q, target, ops, opsDen) ==
    LET superOp == getOneQubitKrausSuperoperator(ops)
    IN  densmatr_applyKrausSuperoperator(q, target, superOp, opsDen * opsDen)

\* sqrt on the squares
Sqrt(x) == CHOOSE r \in 0..x : r * r = x

IsSquare(x) == \E r \in 0..x : r * r = x

PauliKrausOps_SwappedXZ(probX, probY, probZ, unit) ==
    LET facs == <<Sqrt(unit - (probX + probY + probZ)), Sqrt(probX), Sqrt(probY),
                  Sqrt(probZ)>>
    IN  << MatOf(<< <<facs[1], 0>>, CZero, CZero, <<facs[1], 0>> >>, 2),
           MatOf(<< CZero, <<facs[4], 0>>, <<facs[4], 0>>, CZero >>, 2),
           MatOf(<< CZero, <<0, 0 - facs[3]>>, <<0, facs[3]>>, CZero >>, 2),
           MatOf(<< <<facs[2], 0>>, CZero, CZero, <<0 - facs[2], 0>> >>, 2) >>

\* the four Kraus operators of densmatr_oneQubitPauliError; the probabilities
\* are in units of 1/unit and the operators' entries in units of 1/Sqrt(unit)
PauliKrausOps(probX, probY, probZ, unit) ==
    LET facs == <<Sqrt(unit - (probX + probY + probZ)), Sqrt(probX), Sqrt(probY),
                  Sqrt(probZ)>>
    IN  << MatOf(<< <<facs[1], 0>>, CZero, CZero, <<facs[1], 0>> >>, 2),
           MatOf(<< CZero, <<facs[2], 0>>, <<facs[2], 0>>, CZero >>, 2),
           MatOf(<< CZero, <<0, 0 - facs[3]>>, <<0, facs[3]>>, CZero >>, 2),
           MatOf(<< <<facs[4], 0>>, CZero, CZero, <<0 - facs[4], 0>> >>, 2) >>

densmatr_oneQubitPauliError(q, qubit, probX, probY, probZ, unit) ==
    densmatr_applyKrausMap(q, qubit, PauliKrausOps(probX, probY, probZ, unit),
                           Sqrt(unit))

DensmatrApplyKrausMap ==
    /\ Pending("densmatr_applyKrausMap")
    /\ LET r == densmatr_applyKrausMap(qureg, op.target, op.ops, 1)
       IN  /\ qureg' = r.qureg
           /\ calls' = r.calls
    /\ op' = [op EXCEPT !.name = op.fn]
    /\ UNCHANGED <<ret, workspace, rng>>

DensmatrOneQubitPauliError ==
    /\ Pending("densmatr_oneQubitPauliError")
    /\ LET r == densmatr_oneQubitPauliError(qureg, op.target, op.probX, op.probY,
                                            op.probZ, op.unit)
       IN  /\ qureg' = r.qureg
           /\ calls' = r.calls
    /\ op' = [op EXCEPT !.name = op.fn]
    /\ UNCHANGED <<ret, workspace, rng>>

DensmatrApplyTwoQubitKrausSuperoperator ==
    /\ Pending("densmatr_applyTwoQubitKrausSuperoperator")
    /\ LET r == densmatr_applyTwoQubitKrausSuperoperator(qureg, op.target, op.target2, op.s)
       IN  /\ qureg' = r.qureg
           /\ calls' = r.calls
    /\ op' = [op EXCEPT !.name = op.fn]
    /\ UNCHANGED <<ret, workspace, rng>>

\* the density matrix of n qubits whose amplitudes are laid out in v
DensityQureg(n, v) ==
    [isDensityMatrix |-> 1, numQubitsRepresented |-> n,
     amps |-> [idx \in 0..(Len(v) - 1) |-> v[idx + 1]], den |-> 1]

\* the vector of length len that is z at index k and 0 elsewhere
UnitVector(len, k, z) == [x \in 1..len |-> IF x = k + 1 THEN z ELSE CZero]

\* one-qubit density matrices of bounded weight; of more qubits, the matrices
\* with a single entry, 1 or i
DensityRegisters ==
    {DensityQureg(1, v) : v \in WeightVectors(4, MaxAmpWeight)}
    \cup UNION {{DensityQureg(n, UnitVector(Pow2(2 * n), k, z)) :
                    k \in 0..(Pow2(2 * n) - 1), z \in {<<1, 0>>, <<0, 1>>}} :
                 n \in 2..NumDensQubits}

\* Kraus lists for the registers of more than one qubit
SampleKraus2Lists ==
    { << MatOf(<< <<1, 0>>, <<0, 1>>, <<2, 0>>, <<1, -1>> >>, 2) >>,
      << MatOf(<< <<1, 0>>, CZero, CZero, CZero >>, 2),
         MatOf(<< CZero, <<0, 1>>, <<1, 1>>, CZero >>, 2) >> }

\* superoperators of two-qubit channels, as populateTwoQubitKrausSuperoperator
\* builds them
SampleSuperops4 ==
    {populateTwoQubitKrausSuperoperator(ZeroMatrix(16), <<k>>) : k \in DenseKraus4}

\* the probabilities <<probX, probY, probZ>> in units of 1/unit whose square
\* roots, and that of the rest, are multiples of 1/Sqrt(unit)
PauliProbs(unit) ==
    {p \in (0..unit) \X (0..unit) \X (0..unit) :
        /\ p[1] + p[2] + p[3] <= unit
        /\ IsSquare(p[1]) /\ IsSquare(p[2]) /\ IsSquare(p[3])
        /\ IsSquare(unit - (p[1] + p[2] + p[3]))}

ChannelCalls(q) ==
    LET n == q.numQubitsRepresented
    IN  {[name |-> "pending", fn |-> "densmatr_applyKrausMap", qureg |-> q,
          target |-> t, ops |-> ops] :
            t \in 0..(n - 1), ops \in IF n = 1 THEN Kraus2Lists ELSE SampleKraus2Lists}
        \cup UNION {{[name |-> "pending", fn |-> "densmatr_oneQubitPauliError", qureg |-> q,
                      target |-> t, probX |-> p[1], probY |-> p[2], probZ |-> p[3],
                      unit |-> d * d] : t \in 0..(n - 1), p \in PauliProbs(d * d)} :
                    d \in 1..ProbDen}
        \cup {[name |-> "pending", fn |-> "densmatr_applyTwoQubitKrausSuperoperator",
               qureg |-> q, target |-> t[1], target2 |-> t[2], s |-> s] :
                 t \in {x \in (0..(n - 1)) \X (0..(n - 1)) : x[1] # x[2]},
                 s \in SampleSuperops4}

\* op.qureg keeps the register as it was passed
InitChannel ==
    /\ qureg \in DensityRegisters
    /\ op \in ChannelCalls(qureg)
    /\ ret = <<>>
    /\ calls = <<>>
    /\ workspace = NoQureg
    /\ rng = 0

NextChannel ==
    \/ DensmatrApplyKrausMap
    \/ DensmatrOneQubitPauliError
    \/ DensmatrApplyTwoQubitKrausSuperoperator

SpecChannel == InitChannel /\ [][NextChannel]_vars

\* entry [r][c] of the density matrix held by register q: the ket index r is
\* the low half of the amplitude index and the bra index c the high half
Rho(q, r, c) == q.amps[r + Pow2(q.numQubitsRepresented) * c]

\* x with bit t set to v
SetBit(x, t, v) == x + (v - Bit(x, t)) * Pow2(t)

\* entry [r][c] of sum_n K_n rho K_n-dagger, K_n = ops[n] acting on qubit t of
\* the density matrix held by q
KrausImage(q, t, ops, r, c) ==
    CSum([n \in 1..Len(ops) |->
            CSum([ab \in 0..3 |->
                    LET a == ab % 2
                        b == ab \div 2
                    IN  CMul(CMul(ops[n][Bit(r, t)][a],
                                  Rho(q, SetBit(r, t, a), SetBit(c, t, b))),
                             getConjugateScalar(ops[n][Bit(c, t)][b]))])])

MatrixIndices(q) == 0..(Pow2(q.numQubitsRepresented) - 1)

\* C4: densmatr_applyKrausMap leaves the register holding the sum over n of
\* K_n rho K_n-dagger, which for a single operator K of a one-qubit density
\* matrix is K rho K-dagger.
C4_KrausMapIsConjugation ==
    op.name = "densmatr_applyKrausMap" =>
        /\ qureg.den = 1
        /\ DOMAIN qureg.amps = DOMAIN op.qureg.amps
        /\ \A r, c \in MatrixIndices(qureg) :
              Rho(qureg, r, c) = KrausImage(op.qureg, op.target, op.ops, r, c)

C4_Witness ==
    /\ op.name = "densmatr_applyKrausMap"
    /\ qureg.numQubitsRepresented = 1
    /\ Len(op.ops) = 1
    /\ op.ops[1][0][1] = <<0, 1>>
    /\ op.ops[1][1][1] = <<1, 0>>
    /\ Rho(op.qureg, 1, 1) = <<1, 0>>
    /\ Rho(qureg, 0, 1) = <<0, 1>>
    /\ Rho(qureg, 1, 0) = <<0, -1>>

ScaledIdentity4(k) == [r \in 0..3 |-> [c \in 0..3 |-> IF r = c THEN <<k, 0>> ELSE CZero]]

\* k times X (x) X
ScaledXX(k) == [r \in 0..3 |-> [c \in 0..3 |-> IF r + c = 3 THEN <<k, 0>> ELSE CZero]]

\* C5: with all three probabilities 0 densmatr_oneQubitPauliError builds the
\* identity superoperator and leaves the density matrix unchanged; with
\* probX = 1 and the others 0 it builds X (x) X and maps every entry
\* rho[r][c] to the entry whose row and column have the target's bit flipped.
C5_PauliErrorIdentityAndBitFlip ==
    op.name = "densmatr_oneQubitPauliError" =>
        LET t == op.target
        IN  /\ (op.probX = 0 /\ op.probY = 0 /\ op.probZ = 0) =>
                  /\ calls[1].u = ScaledIdentity4(calls[1].uDen)
                  /\ \A r, c \in MatrixIndices(qureg) :
                        Rho(qureg, r, c) = CScale(qureg.den, Rho(op.qureg, r, c))
            /\ (op.probX = op.unit /\ op.probY = 0 /\ op.probZ = 0) =>
                  /\ calls[1].u = ScaledXX(calls[1].uDen)
                  /\ \A r, c \in MatrixIndices(qureg) :
                        Rho(qureg, r, c) =
                           CScale(qureg.den,
                                  Rho(op.qureg, SetBit(r, t, 1 - Bit(r, t)),
                                      SetBit(c, t, 1 - Bit(c, t))))
            /\ qureg.den = op.unit
            /\ calls[1].uDen = op.unit

C5_Witness ==
    /\ op.name = "densmatr_oneQubitPauliError"
    /\ op.unit = 9
    /\ op.probX = op.unit
    /\ qureg.numQubitsRepresented = 1
    /\ Rho(op.qureg, 0, 1) = <<0, 1>>
    /\ Rho(qureg, 1, 0) = <<0, 9>>
    /\ Rho(qureg, 0, 1) = CZero

IsChannel == op.name \in {"densmatr_applyKrausMap", "densmatr_oneQubitPauliError",
                          "densmatr_applyTwoQubitKrausSuperoperator"}

\* C8: the bridge issues one kernel call, with an empty control mask, whose
\* targets are the ket indices t (t1, t2) below n followed by the bra indices
\* t + n (t1 + n, t2 + n), which lie in [n, 2n); the targets passed are
\* pairwise distinct whenever t1 # t2.
C8_KetAndBraTargets ==
    IsChannel =>
        LET n    == op.qureg.numQubitsRepresented
            two  == op.name = "densmatr_applyTwoQubitKrausSuperoperator"
            kets == IF two THEN <<op.target, op.target2>> ELSE <<op.target>>
            c    == calls[1]
        IN  /\ Len(calls) = 1
            /\ c.fn = (IF two THEN "statevec_multiControlledMultiQubitUnitary"
                              ELSE "statevec_multiControlledTwoQubitUnitary")
            /\ c.ctrlMask = 0
            /\ Len(c.targets) = 2 * Len(kets)
            /\ \A j \in 1..Len(kets) :
                  /\ c.targets[j] = kets[j]
                  /\ c.targets[j] \in 0..(n - 1)
                  /\ c.targets[j + Len(kets)] = kets[j] + n
                  /\ c.targets[j + Len(kets)] \in n..(2 * n - 1)
            /\ (two /\ op.target # op.target2) =>
                  \A i, j \in 1..4 : i # j => c.targets[i] # c.targets[j]

C8_Witness ==
    /\ op.name = "densmatr_applyTwoQubitKrausSuperoperator"
    /\ op.target = 1
    /\ op.target2 = 0
    /\ calls[1].targets = <<1, 0, 3, 2>>
    /\ qureg # op.qureg

\* ------------------------------------------------------------ square-root SWAP

\* a statevector handed to a gate holds 2..NumGateQubits qubits
NumGateQubits == 2

\* a run applies at most MaxGateSteps gates to its register
MaxGateSteps == 2

PauliXMatrix == MatOf(<< CZero, <<1, 0>>, <<1, 0>>, CZero >>, 2)

\* the kernel: u, over the denominator uDen, on the target qubit of the
\* amplitudes whose control bit is 1
statevec_controlledUnitary(amps, numBits, controlQubit, targetQubit, u, uDen) ==
    statevec_multiControlledMultiQubitUnitary(amps, numBits, Pow2(controlQubit),
                                              <<targetQubit>>, u, uDen)

\* the kernel: NOT on the target qubit of the amplitudes whose control bit is 1
statevec_controlledNot(amps, numBits, controlQubit, targetQubit) ==
    statevec_controlledUnitary(amps, numBits, controlQubit, targetQubit, PauliXMatrix, 1)

\* CNOT(qb1, qb2), controlled-u(control qb2, target qb1), CNOT(qb1, qb2);
\* u is over the denominator 2
SqrtSwapBody(q, qb1, qb2, u) ==
    LET n  == q.numQubitsRepresented
        a1 == statevec_controlledNot(q.amps, n, qb1, qb2)
        a2 == statevec_controlledUnitary(a1, n, qb2, qb1, u, 2)
        a3 == statevec_controlledNot(a2, n, qb1, qb2)
    IN  [calls |-> <<[fn |-> "statevec_controlledNot", control |-> qb1, target |-> qb2],
                     [fn |-> "statevec_controlledUnitary", control |-> qb2, target |-> qb1,
                      u |-> u, uDen |-> 2],
                     [fn |-> "statevec_controlledNot", control |-> qb1, target |-> qb2]>>,
         qureg |-> [q EXCEPT !.amps = a3, !.den = q.den * 2]]

statevec_sqrtSwapGate_SwappedControl(q, qb1, qb2) ==
    LET n  == q.numQubitsRepresented
        u  == MatOf(<< <<1, 1>>, <<1, -1>>, <<1, -1>>, <<1, 1>> >>, 2)
        a1 == statevec_controlledNot(q.amps, n, qb1, qb2)
        a2 == statevec_controlledUnitary(a1, n, qb1, qb2, u, 2)
        a3 == statevec_controlledNot(a2, n, qb1, qb2)
    IN  [calls |-> <<[fn |-> "statevec_controlledNot", control |-> qb1, target |-> qb2],
                     [fn |-> "statevec_controlledUnitary", control |-> qb1, target |-> qb2,
                      u |-> u, uDen |-> 2],
                     [fn |-> "statevec_controlledNot", control |-> qb1, target |-> qb2]>>,
         qureg |-> [q EXCEPT !.amps = a3, !.den = q.den * 2]]

\* u = 1/2 * [[1+i, 1-i], [1-i, 1+i]]
statevec_sqrtSwapGate(q, qb1, qb2) ==
    SqrtSwapBody(q, qb1, qb2, MatOf(<< <<1, 1>>, <<1, -1>>, <<1, -1>>, <<1, 1>> >>, 2))

\* u = 1/2 * [[1-i, 1+i], [1+i, 1-i]]
statevec_sqrtSwapGateConj(q, qb1, qb2) ==
    SqrtSwapBody(q, qb1, qb2, MatOf(<< <<1, -1>>, <<1, 1>>, <<1, 1>>, <<1, -1>> >>, 2))

InCircuit == op.name # "none" /\ op.fn = "circuit" /\ Len(op.applied) < MaxGateSteps

StatevecSqrtSwapGate ==
    /\ InCircuit
    /\ LET r == statevec_sqrtSwapGate(qureg, op.qb1, op.qb2)
       IN  /\ qureg' = r.qureg
           /\ calls' = r.calls
    /\ op' = [op EXCEPT !.name = "statevec_sqrtSwapGate",
                        !.applied = Append(@, "statevec_sqrtSwapGate")]
    /\ UNCHANGED <<ret, workspace, rng>>

StatevecSqrtSwapGateConj ==
    /\ InCircuit
    /\ LET r == statevec_sqrtSwapGateConj(qureg, op.qb1, op.qb2)
       IN  /\ qureg' = r.qureg
           /\ calls' = r.calls
    /\ op' = [op EXCEPT !.name = "statevec_sqrtSwapGateConj",
                        !.applied = Append(@, "statevec_sqrtSwapGateConj")]
    /\ UNCHANGED <<ret, workspace, rng>>

\* the statevector of n qubits whose amplitudes are laid out in v
StatevecQureg(n, v) ==
    [isDensityMatrix |-> 0, numQubitsRepresented |-> n,
     amps |-> [idx \in 0..(Len(v) - 1) |-> v[idx + 1]], den |-> 1]

GateRegisters ==
    UNION {{StatevecQureg(n, v) : v \in WeightVectors(Pow2(n), MaxAmpWeight + 1)} :
              n \in 2..NumGateQubits}

\* op.qureg keeps the register as it was before the first gate and
\* op.applied the gates applied since, all to the qubits qb1 and qb2
InitGate ==
    /\ qureg \in GateRegisters
    /\ \E qb1, qb2 \in 0..(qureg.numQubitsRepresented - 1) :
          /\ qb1 # qb2
          /\ op = [name |-> "pending", fn |-> "circuit", qureg |-> qureg,
                   qb1 |-> qb1, qb2 |-> qb2, applied |-> <<>>]
    /\ ret = <<>>
    /\ calls = <<>>
    /\ workspace = NoQureg
    /\ rng = 0

NextGate ==
    \/ StatevecSqrtSwapGate
    \/ StatevecSqrtSwapGateConj

SpecGate == InitGate /\ [][NextGate]_vars

\* idx with its bits at a and b exchanged
SwapBits(idx, a, b) == SetBit(SetBit(idx, a, Bit(idx, b)), b, Bit(idx, a))

\* C6: statevec_sqrtSwapGate(qb1, qb2) issues controlled-NOT(qb1, qb2),
\* controlled-unitary(control qb2, target qb1, U), controlled-NOT(qb1, qb2) in
\* that order, with U = 1/2 * [[1+i, 1-i], [1-i, 1+i]], and applied twice it
\* exchanges the amplitudes of the basis states that differ in qb1 and qb2 and
\* leaves the others unchanged: it is SWAP.
C6_SqrtSwapTwiceIsSwap ==
    /\ op.name = "statevec_sqrtSwapGate" =>
          calls = <<[fn |-> "statevec_controlledNot", control |-> op.qb1, target |-> op.qb2],
                    [fn |-> "statevec_controlledUnitary", control |-> op.qb2,
                     target |-> op.qb1,
                     u |-> MatOf(<< <<1, 1>>, <<1, -1>>, <<1, -1>>, <<1, 1>> >>, 2),
                     uDen |-> 2],
                    [fn |-> "statevec_controlledNot", control |-> op.qb1, target |-> op.qb2]>>
    /\ (op.name = "statevec_sqrtSwapGate"
          /\ op.applied = <<"statevec_sqrtSwapGate", "statevec_sqrtSwapGate">>) =>
          \A idx \in DOMAIN qureg.amps :
              qureg.amps[idx] =
                 CScale(qureg.den, op.qureg.amps[SwapBits(idx, op.qb1, op.qb2)])

C6_Witness ==
    /\ op.name = "statevec_sqrtSwapGate"
    /\ op.applied = <<"statevec_sqrtSwapGate", "statevec_sqrtSwapGate">>
    /\ op.qureg.numQubitsRepresented = 2
    /\ op.qureg.amps[1] = <<0, 1>>
    /\ op.qureg.amps[2] = CZero
    /\ qureg.den = 4
    /\ qureg.amps[2] = <<0, 4>>
    /\ qureg.amps[1] = CZero

\* --------------------------------------------------- Pauli expectation values

\* a register handed to the expectation evaluator holds 1..NumExpecQubits
\* qubits
NumExpecQubits == 2

\* a weighted sum holds at most MaxTerms Pauli strings
MaxTerms == 2

\* the number of qubits of the statevector that holds the register
numQubitsInStateVec(q) ==
    IF q.isDensityMatrix = 1 THEN 2 * q.numQubitsRepresented ELSE q.numQubitsRepresented

PauliYMatrix == MatOf(<< CZero, <<0, -1>>, <<0, 1>>, CZero >>, 2)

\* the kernel: workspace takes the amplitudes of q
statevec_cloneQureg(ws, q) == [ws EXCEPT !.amps = q.amps, !.den = q.den]

\* the kernel: X on the target qubit
statevec_pauliX(q, targetQubit) ==
    [q EXCEPT !.amps = statevec_multiControlledMultiQubitUnitary(q.amps,
                          numQubitsInStateVec(q), 0, <<targetQubit>>, PauliXMatrix, 1)]

\* the kernel: Y on the target qubit
statevec_pauliY(q, targetQubit) ==
    [q EXCEPT !.amps = statevec_multiControlledMultiQubitUnitary(q.amps,
                          numQubitsInStateVec(q), 0, <<targetQubit>>, PauliYMatrix, 1)]

\* the kernel: the amplitudes whose target bit is 1 are multiplied by term
statevec_phaseShiftByTerm(q, targetQubit, term) ==
    [q EXCEPT !.amps = [idx \in DOMAIN q.amps |->
                          IF Bit(idx, targetQubit) = 1 THEN CMul(term, q.amps[idx])
                          ELSE q.amps[idx]]]

statevec_pauliZ(q, targetQubit) == statevec_phaseShiftByTerm(q, targetQubit, <<-1, 0>>)

\* the kernel: <bra|ket>
statevec_calcInnerProduct(bra, ket) ==
    CSum([idx \in DOMAIN bra.amps |->
            CMul(getConjugateScalar(bra.amps[idx]), ket.amps[idx])])

\* the kernel: the trace of the density matrix
densmatr_calcTotalProb(q) ==
    CSum([r \in 0..(Pow2(q.numQubitsRepresented) - 1) |->
            <<q.amps[r + Pow2(q.numQubitsRepresented) * r][1], 0>>])[1]

\* the loop over the targets, from target i on
RECURSIVE ApplyPaulis(_, _, _, _)
ApplyPaulis(ws, targetQubits, pauliCodes, i) ==
    IF i > Len(targetQubits) THEN ws
    ELSE ApplyPaulis(
            IF pauliCodes[i] = PAULI_X THEN statevec_pauliX(ws, targetQubits[i])
            ELSE IF pauliCodes[i] = PAULI_Y THEN statevec_pauliY(ws, targetQubits[i])
            ELSE IF pauliCodes[i] = PAULI_Z THEN statevec_pauliZ(ws, targetQubits[i])
            ELSE ws,
            targetQubits, pauliCodes, i + 1)

\* the evaluation of one string with the clone left out: the operators act on
\* what the workspace held
statevec_calcExpecValProd_NoClone(q, targetQubits, pauliCodes, ws) ==
    LET w == ApplyPaulis(ws, targetQubits, pauliCodes, 1)
    IN  [value |-> IF q.isDensityMatrix = 1 THEN densmatr_calcTotalProb(w)
                   ELSE statevec_calcInnerProduct(w, q)[1],
         workspace |-> w]

\* the value returned and the workspace left behind
statevec_calcExpecValProd(q, targetQubits, pauliCodes, ws) ==
    LET w == ApplyPaulis(statevec_cloneQureg(ws, q), targetQubits, pauliCodes, 1)
    IN  [value |-> IF q.isDensityMatrix = 1 THEN densmatr_calcTotalProb(w)
                   ELSE statevec_calcInnerProduct(w, q)[1],
         workspace |-> w]

\* the loop over the terms, from term t (counted from 0) on
RECURSIVE ExpecValSumFrom(_, _, _, _, _, _)
ExpecValSumFrom(q, allCodes, termCoeffs, t, value, ws) ==
    IF t >= Len(termCoeffs) THEN [value |-> value, workspace |-> ws]
    ELSE LET numQb == q.numQubitsRepresented
             targs == [x \in 1..numQb |-> x - 1]
             r     == statevec_calcExpecValProd(q, targs,
                         SubSeq(allCodes, t * numQb + 1, t * numQb + numQb), ws)
         IN  ExpecValSumFrom(q, allCodes, termCoeffs, t + 1,
                             value + termCoeffs[t + 1] * r.value, r.workspace)

statevec_calcExpecValSum_UnscaledOffset(q, allCodes, termCoeffs, ws) ==
    LET numQb == q.numQubitsRepresented
        targs == [x \in 1..numQb |-> x - 1]
        Term(t, w) == statevec_calcExpecValProd(q, targs,
                         SubSeq(allCodes, t + 1, t + numQb), w)
        r0 == IF Len(termCoeffs) >= 1 THEN Term(0, ws) ELSE [value |-> 0, workspace |-> ws]
        r1 == IF Len(termCoeffs) >= 2 THEN Term(1, r0.workspace)
              ELSE [value |-> 0, workspace |-> r0.workspace]
        r2 == IF Len(termCoeffs) >= 3 THEN Term(2, r1.workspace)
              ELSE [value |-> 0, workspace |-> r1.workspace]
    IN  [value |-> (IF Len(termCoeffs) >= 1 THEN termCoeffs[1] * r0.value ELSE 0)
                   + (IF Len(termCoeffs) >= 2 THEN termCoeffs[2] * r1.value ELSE 0)
                   + (IF Len(termCoeffs) >= 3 THEN termCoeffs[3] * r2.value ELSE 0),
         workspace |-> r2.workspace]

\* numSumTerms is the length of termCoeffs
statevec_calcExpecValSum(q, allCodes, termCoeffs, ws) ==
    ExpecValSumFrom(q, allCodes, termCoeffs, 0, 0, ws)

StatevecCalcExpecValProd ==
    /\ Pending("statevec_calcExpecValProd")
    /\ LET r == statevec_calcExpecValProd(qureg, op.targetQubits, op.pauliCodes, workspace)
       IN  /\ ret' = r.value
           /\ workspace' = r.workspace
    /\ op' = [op EXCEPT !.name = op.fn]
    /\ calls' = <<>>
    /\ UNCHANGED <<qureg, rng>>

StatevecCalcExpecValSum ==
    /\ Pending("statevec_calcExpecValSum")
    /\ LET r == statevec_calcExpecValSum(qureg, op.allCodes, op.termCoeffs, workspace)
       IN  /\ ret' = r.value
           /\ workspace' = r.workspace
    /\ op' = [op EXCEPT !.name = op.fn]
    /\ calls' = <<>>
    /\ UNCHANGED <<qureg, rng>>

\* the vectors with a single entry 1, and two vectors with no entry 0
SampleVectors(len) ==
    {UnitVector(len, k, <<1, 0>>) : k \in 0..(len - 1)}
    \cup {[x \in 1..len |-> <<x, 1>>], [x \in 1..len |-> <<1 - (x % 3), x - 2>>]}

\* statevectors of up to NumExpecQubits qubits and density matrices of up to
\* NumDensQubits - 1
ExpecRegisters ==
    UNION {{StatevecQureg(n, v) : v \in SampleVectors(Pow2(n))} : n \in 1..NumExpecQubits}
    \cup UNION {{DensityQureg(n, v) : v \in SampleVectors(Pow2(2 * n))} :
                   n \in 1..(NumDensQubits - 1)}

\* what the workspace may hold beforehand: nothing but zeros, or numbers of
\* its own
Workspaces(q) ==
    {[q EXCEPT !.amps = [idx \in DOMAIN q.amps |-> CZero]],
     [q EXCEPT !.amps = [idx \in DOMAIN q.amps |-> <<7 - idx, idx + 3>>]]}

AllZ(n) == [x \in 1..n |-> PAULI_Z]

XOnFirst(n) == [x \in 1..n |-> IF x = 1 THEN PAULI_X ELSE PAULI_I]

\* the code arrays of k terms over n qubits: any string, followed by strings
\* that are all Z or X on qubit 0
RECURSIVE CodeArrays(_, _)
CodeArrays(n, k) ==
    IF k = 0 THEN {<<>>}
    ELSE IF k = 1 THEN [1..n -> PauliCodes]
    ELSE {a \o b : a \in CodeArrays(n, k - 1), b \in {AllZ(n), XOnFirst(n)}}

ExpecCalls(q) ==
    LET n == q.numQubitsRepresented
    IN  UNION {{[name |-> "pending", fn |-> "statevec_calcExpecValSum", qureg |-> q,
                 allCodes |-> a, termCoeffs |-> c] :
                   a \in CodeArrays(n, k), c \in [1..k -> {1, -2}]} : k \in 0..MaxTerms}
        \cup UNION {{[name |-> "pending", fn |-> "statevec_calcExpecValProd", qureg |-> q,
                      targetQubits |-> tq, pauliCodes |-> pc] :
                        pc \in [1..Len(tq) -> PauliCodes]} : tq \in DistinctLists(n)}

InitExpec ==
    /\ qureg \in ExpecRegisters
    /\ workspace \in Workspaces(qureg)
    /\ op \in ExpecCalls(qureg)
    /\ ret = 0
    /\ calls = <<>>
    /\ rng = 0

NextExpec ==
    \/ StatevecCalcExpecValProd
    \/ StatevecCalcExpecValSum

SpecExpec == InitExpec /\ [][NextExpec]_vars

\* the entry of the Pauli operator code in the row b of its matrix that is not
\* zero
PauliEntry(code, b) ==
    IF code = PAULI_Y THEN (IF b = 0 THEN <<0, -1>> ELSE <<0, 1>>)
    ELSE IF code = PAULI_Z THEN (IF b = 0 THEN <<1, 0>> ELSE <<-1, 0>>)
    ELSE <<1, 0>>

\* the entry of the string codes, codes[k] on qubit k - 1, in row idx
RECURSIVE StringEntry(_, _, _)
StringEntry(codes, idx, k) ==
    IF k > Len(codes) THEN <<1, 0>>
    ELSE CMul(PauliEntry(codes[k], Bit(idx, k - 1)), StringEntry(codes, idx, k + 1))

\* the column of that entry
RECURSIVE StringColumn(_, _, _)
StringColumn(codes, idx, k) ==
    IF k > Len(codes) THEN idx
    ELSE StringColumn(codes,
            IF codes[k] \in {PAULI_X, PAULI_Y} THEN SetBit(idx, k - 1, 1 - Bit(idx, k - 1))
            ELSE idx,
            k + 1)

\* <psi|P|psi> for a statevector and trace(P rho) for a density matrix, P the
\* string codes on qubits 0..n-1
StringValue(q, codes) ==
    LET dim == Pow2(q.numQubitsRepresented)
    IN  CSum([r \in 0..(dim - 1) |->
                LET e   == StringEntry(codes, r, 1)
                    col == StringColumn(codes, r, 1)
                IN  IF q.isDensityMatrix = 1
                    THEN CMul(e, q.amps[col + dim * r])
                    ELSE CMul(getConjugateScalar(q.amps[r]), CMul(e, q.amps[col]))])[1]

RECURSIVE ISumUpTo(_, _)
ISumUpTo(f, n) == IF n < 1 THEN 0 ELSE f[n] + ISumUpTo(f, n - 1)

\* the register holds the all-zero product state
IsZeroState(q) ==
    \A idx \in DOMAIN q.amps : q.amps[idx] = (IF idx = 0 THEN <<1, 0>> ELSE CZero)

\* C7: statevec_calcExpecValSum returns the sum over the terms t of
\* termCoeffs[t] times the value of the string allCodes[t*n .. t*n+n-1] on
\* qubits 0..n-1; on the all-zero product state that is +1 for the single
\* term, of coefficient 1, that tags every qubit Z and 0 for the single term
\* that tags one qubit X and the others Identity.
C7_ExpecValSum ==
    op.name = "statevec_calcExpecValSum" =>
        LET n == qureg.numQubitsRepresented
            single == op.termCoeffs = <<1>> /\ IsZeroState(qureg)
        IN  /\ ret = ISumUpTo([t \in 1..Len(op.termCoeffs) |->
                        op.termCoeffs[t] *
                          StringValue(qureg, SubSeq(op.allCodes, (t - 1) * n + 1, t * n))],
                        Len(op.termCoeffs))
            /\ (single /\ op.allCodes = AllZ(n)) => ret = 1
            /\ (single /\ \E x \in 1..n :
                    op.allCodes = [k \in 1..n |-> IF k = x THEN PAULI_X ELSE PAULI_I])
                  => ret = 0

C7_Witness ==
    /\ op.name = "statevec_calcExpecValSum"
    /\ qureg.isDensityMatrix = 0
    /\ qureg.numQubitsRepresented = 2
    /\ IsZeroState(qureg)
    /\ op.termCoeffs = <<1>>
    /\ op.allCodes = AllZ(2)
    /\ ret = 1
    /\ workspace.amps = qureg.amps

\* the string over qubits 0..n-1 that tags targetQubits[t] with pauliCodes[t]
\* and every other qubit Identity
FullCodes(n, targetQubits, pauliCodes) ==
    [k \in 1..n |->
        IF \E t \in DOMAIN targetQubits : targetQubits[t] = k - 1
        THEN pauliCodes[CHOOSE t \in DOMAIN targetQubits : targetQubits[t] = k - 1]
        ELSE PAULI_I]

\* the register q with the string codes applied: P|psi> for a statevector, and
\* P rho, P acting on the row index alone, for a density matrix
PauliApplied(q, codes) ==
    LET dim == Pow2(q.numQubitsRepresented)
    IN  [q EXCEPT !.amps = [idx \in DOMAIN q.amps |->
            LET r == idx % dim
                c == idx \div dim
            IN  CMul(StringEntry(codes, r, 1),
                     q.amps[StringColumn(codes, r, 1) + dim * c])]]

\* the value read from the workspace w for the register q
ReadValue(w, q) ==
    IF q.isDensityMatrix = 1 THEN densmatr_calcTotalProb(w)
    ELSE statevec_calcInnerProduct(w, q)[1]

\* the string of term t, counted from 1, of the evaluation of a sum
TermCodes(t) ==
    SubSeq(op.allCodes, (t - 1) * qureg.numQubitsRepresented + 1,
           t * qureg.numQubitsRepresented)

\* C12: statevec_calcExpecValProd and statevec_calcExpecValSum leave the input
\* register as it was.  The workspace ends as the input register with the
\* Pauli string (of the last term, for a sum) applied, whatever it held before
\* and whichever terms came earlier, and each term's value is the value read
\* from the input register with that term's string applied: the workspace's
\* total probability for a density matrix and the real part of the inner
\* product of workspace and register otherwise.  The result is the same from
\* every prior content of the workspace.
C12_WorkspaceOnly ==
    /\ op.name = "statevec_calcExpecValProd" =>
          LET codes == FullCodes(qureg.numQubitsRepresented, op.targetQubits, op.pauliCodes)
          IN  /\ qureg = op.qureg
              /\ workspace = PauliApplied(qureg, codes)
              /\ ret = ReadValue(workspace, qureg)
              /\ \A w \in Workspaces(qureg) :
                    statevec_calcExpecValProd(qureg, op.targetQubits, op.pauliCodes, w)
                        = [value |-> ret, workspace |-> workspace]
    /\ op.name = "statevec_calcExpecValSum" =>
          LET k == Len(op.termCoeffs)
          IN  /\ qureg = op.qureg
              /\ k = 0 => workspace \in Workspaces(qureg)
              /\ k > 0 => workspace = PauliApplied(qureg, TermCodes(k))
              /\ ret = ISumUpTo([t \in 1..k |->
                            op.termCoeffs[t]
                              * ReadValue(PauliApplied(qureg, TermCodes(t)), qureg)], k)
              /\ k > 0 => \A w \in Workspaces(qureg) :
                    statevec_calcExpecValSum(qureg, op.allCodes, op.termCoeffs, w)
                        = [value |-> ret, workspace |-> workspace]

\* a sum of two terms over a two-qubit statevector with no zero amplitude has
\* been evaluated: the first string, Y on qubit 0 and X on qubit 1, is not
\* what the workspace holds, which is the register with the second string, all
\* Z, applied
C12_Witness ==
    /\ op.name = "statevec_calcExpecValSum"
    /\ qureg.isDensityMatrix = 0
    /\ qureg.numQubitsRepresented = 2
    /\ \A idx \in DOMAIN qureg.amps : qureg.amps[idx] = <<idx + 1, 1>>
    /\ op.termCoeffs = <<1, -2>>
    /\ op.allCodes = <<PAULI_Y, PAULI_X>> \o AllZ(2)
    /\ workspace = PauliApplied(qureg, AllZ(2))
    /\ workspace # PauliApplied(qureg, <<PAULI_Y, PAULI_X>>)
    /\ workspace.amps # qureg.amps
    /\ qureg = op.qureg

\* --------------------------------------------------------------- rotation codec

\* the components of a rotation axis are integers in -MaxAxis..MaxAxis
MaxAxis == 2

\* cos(angle/2) and sin(angle/2) are c/h and s/h for integers c, s and
\* h <= MaxHyp with c^2 + s^2 = h^2
MaxHyp == 5

\* a real number of the codec is a fraction <<numerator, denominator>>,
\* denominator positive
QMul(a, b) == <<a[1] * b[1], a[2] * b[2]>>

QNeg(a) == <<0 - a[1], a[2]>>

QAdd(a, b) == <<a[1] * b[2] + b[1] * a[2], a[2] * b[2]>>

QEq(a, b) == a[1] * b[2] = b[1] * a[2]

\* a / b for b > 0
QDiv(a, b) == <<a[1] * b[2], a[2] * b[1]>>

\* an angle is given by the point <<c, s, h>> of its half angle
Cos2(angle) == <<angle[1], angle[3]>>

Sin2(angle) == <<angle[2], angle[3]>>

getVectorMagnitude(vec) == <<Sqrt(vec.x * vec.x + vec.y * vec.y + vec.z * vec.z), 1>>

getUnitVector_NotNormalised(vec) ==
    [x |-> <<vec.x, 1>>, y |-> <<vec.y, 1>>, z |-> <<vec.z, 1>>]

getUnitVector(vec) ==
    LET mag == getVectorMagnitude(vec)
    IN  [x |-> QDiv(<<vec.x, 1>>, mag), y |-> QDiv(<<vec.y, 1>>, mag),
         z |-> QDiv(<<vec.z, 1>>, mag)]

getComplexPairFromRotation(angle, axis) ==
    LET unitAxis == getUnitVector(axis)
    IN  [alpha |-> [real |-> Cos2(angle), imag |-> QMul(QNeg(Sin2(angle)), unitAxis.z)],
         beta  |-> [real |-> QMul(Sin2(angle), unitAxis.y),
                    imag |-> QMul(QNeg(Sin2(angle)), unitAxis.x)]]

\* the pair the codec wrote and the call made with it
statevec_rotateAroundAxis(rotQubit, angle, axis) ==
    LET pair == getComplexPairFromRotation(angle, axis)
    IN  [pair |-> pair,
         calls |-> <<[fn |-> "statevec_compactUnitary", target |-> rotQubit,
                      alpha |-> pair.alpha, beta |-> pair.beta]>>]

statevec_rotateAroundAxisConj(rotQubit, angle, axis) ==
    LET pair == getComplexPairFromRotation(angle, axis)
    IN  [pair |-> pair,
         calls |-> <<[fn |-> "statevec_compactUnitary", target |-> rotQubit,
                      alpha |-> [pair.alpha EXCEPT !.imag = QMul(@, <<-1, 1>>)],
                      beta |-> [pair.beta EXCEPT !.imag = QMul(@, <<-1, 1>>)]]>>]

GetComplexPairFromRotation ==
    /\ Pending("getComplexPairFromRotation")
    /\ ret' = getComplexPairFromRotation(op.angle, op.axis)
    /\ op' = [op EXCEPT !.name = op.fn]
    /\ UNCHANGED <<calls, qureg, workspace, rng>>

\* the amplitudes are changed by the compact-unitary kernel alone
StatevecRotateAroundAxis ==
    /\ Pending("statevec_rotateAroundAxis")
    /\ LET r == statevec_rotateAroundAxis(op.rotQubit, op.angle, op.axis)
       IN  /\ ret' = r.pair
           /\ calls' = r.calls
    /\ op' = [op EXCEPT !.name = op.fn]
    /\ UNCHANGED <<qureg, workspace, rng>>

StatevecRotateAroundAxisConj ==
    /\ Pending("statevec_rotateAroundAxisConj")
    /\ LET r == statevec_rotateAroundAxisConj(op.rotQubit, op.angle, op.axis)
       IN  /\ ret' = r.pair
           /\ calls' = r.calls
    /\ op' = [op EXCEPT !.name = op.fn]
    /\ UNCHANGED <<qureg, workspace, rng>>

\* the half angles whose cosine and sine are fractions
AnglePoints ==
    {a \in (-MaxHyp..MaxHyp) \X (-MaxHyp..MaxHyp) \X (1..MaxHyp) :
        a[1] * a[1] + a[2] * a[2] = a[3] * a[3]}

\* the non-zero axes whose magnitude is an integer
Axes ==
    {[x |-> v[1], y |-> v[2], z |-> v[3]] :
        v \in {w \in (-MaxAxis..MaxAxis) \X (-MaxAxis..MaxAxis) \X (-MaxAxis..MaxAxis) :
                  /\ w # <<0, 0, 0>>
                  /\ IsSquare(w[1] * w[1] + w[2] * w[2] + w[3] * w[3])}}

InitRot ==
    /\ \E angle \in AnglePoints, axis \in Axes :
          \/ op = [name |-> "pending", fn |-> "getComplexPairFromRotation",
                   angle |-> angle, axis |-> axis]
          \/ \E fn \in {"statevec_rotateAroundAxis", "statevec_rotateAroundAxisConj"} :
                op = [name |-> "pending", fn |-> fn, rotQubit |-> 0,
                      angle |-> angle, axis |-> axis]
    /\ ret = <<>>
    /\ calls = <<>>
    /\ qureg = NoQureg
    /\ workspace = NoQureg
    /\ rng = 0

NextRot ==
    \/ GetComplexPairFromRotation
    \/ StatevecRotateAroundAxis
    \/ StatevecRotateAroundAxisConj

SpecRot == InitRot /\ [][NextRot]_vars

\* |z|^2 of a Complex of fractions
QNormSq(z) == QAdd(QMul(z.real, z.real), QMul(z.imag, z.imag))

QConjOf(z, w) == QEq(z.real, w.real) /\ QEq(z.imag, QNeg(w.imag))

IsRotation == op.name \in {"getComplexPairFromRotation", "statevec_rotateAroundAxis",
                           "statevec_rotateAroundAxisConj"}

\* C9: the pair (alpha, beta) written by getComplexPairFromRotation has
\* |alpha|^2 + |beta|^2 = 1 for every angle and non-zero axis, and
\* statevec_rotateAroundAxisConj passes the complex conjugates of that pair to
\* the compact-unitary kernel.
C9_UnitPairAndConjugate ==
    IsRotation =>
        /\ QEq(QAdd(QNormSq(ret.alpha), QNormSq(ret.beta)), <<1, 1>>)
        /\ op.name = "statevec_rotateAroundAxisConj" =>
              /\ Len(calls) = 1
              /\ calls[1].fn = "statevec_compactUnitary"
              /\ calls[1].target = op.rotQubit
              /\ QConjOf(calls[1].alpha, ret.alpha)
              /\ QConjOf(calls[1].beta, ret.beta)

C9_Witness ==
    /\ op.name = "statevec_rotateAroundAxisConj"
    /\ op.angle = <<3, 4, 5>>
    /\ op.axis = [x |-> 1, y |-> 2, z |-> -2]
    /\ QEq(ret.alpha.imag, <<8, 15>>)
    /\ QEq(calls[1].alpha.imag, <<-8, 15>>)
    /\ QEq(calls[1].beta.imag, <<4, 15>>)
    /\ QEq(calls[1].beta.real, <<8, 15>>)

====
